---- MODULE Spec2Model ----
(***************************************************************************)
(* Model of the Spotter + Sniper control loop of ParadexDualTaker          *)
(* (src/main.py, monitor_spread and its helpers), the session counter of   *)
(* OrderGuard (src/order_guard.py) and the exit record of ExitHandler      *)
(* (src/exit_handler.py).                                                  *)
(*                                                                         *)
(* The OrderGuard object is followed on its own in SpecGuard, with the    *)
(* history file as a sequence of timestamps and a clock that counts in     *)
(* steps of 12 hours, so that the 24 hour window is 2.  In Spec the file   *)
(* is not followed: what get_status_info counts in it is an input.         *)
(*                                                                         *)
(* Units.  Positions and depth sizes are integers in 0.001 BTC, so the     *)
(* balancing epsilon 0.01 BTC is 10 and the imbalance ceiling 0.05 BTC is  *)
(* 50.  Spreads are integers in 0.0001 %, so spread_threshold 0.001 % is   *)
(* 10.  Balances are integers in USD.                                      *)
(*                                                                         *)
(* The loop is one coroutine.  pc is its position; every action is the     *)
(* code between one await and the next.  Values the outside world returns  *)
(* (account snapshots, spread, order book, order results, the fee check,   *)
(* the wall clock) are drawn with \E from small sets.                      *)
(***************************************************************************)
EXTENDS Integers, Sequences, FiniteSets, TLC

(***************************************************************************)
(* Bounds of the model.  The shipped values are session_limit = 300,       *)
(* force_exit_trades = 10, FEE_CHECK_INTERVAL = 100, max_trades = 1000 and *)
(* max_errors = 10, and max_attempts = 15 in _balance_positions; the model *)
(* keeps their roles and scales them down.                                 *)
(***************************************************************************)
SessionLimit == 2
ForceExitTrades == 1
FeeCheckInterval == 1
MaxTrades == 3
MaxErrors == 2
MaxAttempts == 3
MaxClock == 4
MaxHistory == 3

(***************************************************************************)
(* Program constants, in the units above.                                  *)
(***************************************************************************)
None == -1000
Unbound == -2000
Eps == 10
CeilingDiff == 50
TARGET_POSITION == 50
min_depth == 30
spread_threshold == 10
min_available_balance == 300
DepthUnreadable == -1
hours_24 == 2
NotATimestamp == -3000
safety_threshold == 950
max_orders == 1000

Accounts == {"account_a", "account_b"}
Directions == {"long", "short", "none"}

Abs(x) == IF x < 0 THEN -x ELSE x

\* `x if x is not None else 0` and `x if x else 0`
OrZero(x) == IF x = None THEN 0 ELSE x

(***************************************************************************)
(* What the exchange page can show.                                        *)
(***************************************************************************)
SpreadReads == {None, -1, 0, 10}
DepthSizes == {DepthUnreadable, 10, 30}

\* get_position_direction_and_balance: the (position, direction, balance)
\* triple built from the page's position text, its colour and its balance;
\* failed is the case in which the fallback path raised as well.
get_position_direction_and_balance(position, color, balance, failed) ==
    IF failed THEN <<None, "none", None>>
    ELSE IF position = None \/ position = 0 THEN <<0, "none", balance>>
    ELSE IF color = "none"
         THEN IF position > 0 THEN <<position, "long", balance>>
                              ELSE <<Abs(position), "short", balance>>
         ELSE <<Abs(position), color, balance>>

\* One page reading: position text, colour, balance, and whether the read
\* failed altogether.
Raw(position, color, balance) ==
    [position |-> position, color |-> color, balance |-> balance, failed |-> FALSE]
Failed == [position |-> None, color |-> "none", balance |-> None, failed |-> TRUE]

\* Readings of the two pages taken together, account A first.
RawPairs ==
    { <<Raw(0, "none", 300), Raw(0, "none", 300)>>,
      <<Raw(None, "none", 300), Raw(0, "none", 300)>>,
      <<Raw(4, "long", 300), Raw(0, "none", 300)>>,
      <<Raw(4, "long", 300), Raw(4, "short", 300)>>,
      <<Raw(10, "long", 300), Raw(0, "none", 300)>>,
      <<Raw(10, "long", 300), Raw(-10, "none", 300)>>,
      <<Raw(10, "long", 300), Raw(10, "long", 300)>>,
      <<Raw(50, "long", 300), Raw(50, "short", 300)>>,
      <<Raw(50, "long", 300), Raw(10, "short", 300)>>,
      <<Raw(60, "long", 300), Raw(10, "short", 300)>>,
      <<Raw(60, "long", 300), Raw(0, "none", 300)>>,
      <<Raw(60, "none", 300), Raw(4, "short", 300)>>,
      <<Failed, Raw(10, "short", 300)>>,
      <<Failed, Raw(60, "short", 300)>>,
      <<Failed, Failed>>,
      <<Raw(10, "long", 299), Raw(10, "short", 300)>>,
      <<Raw(10, "long", None), Raw(10, "short", None)>>,
      <<Raw(60, "long", 299), Raw(0, "none", 300)>>,
      <<Raw(0, "none", 299), Raw(0, "none", None)>> }

Read(raw) ==
    get_position_direction_and_balance(raw.position, raw.color, raw.balance,
                                       raw.failed)

\* The pairs of snapshots asyncio.gather can hand to the loop: every reading
\* above and its mirror image.
SnapshotPairs ==
    { <<Read(p[1]), Read(p[2])>> : p \in RawPairs }
    \cup { <<Read(p[2]), Read(p[1])>> : p \in RawPairs }

\* get_order_book_with_depth: (prices readable, ask_size, bid_size)
Books ==
    { [prices |-> FALSE, ask_size |-> None, bid_size |-> None] }
    \cup { [prices |-> TRUE, ask_size |-> a, bid_size |-> b] :
             a \in DepthSizes, b \in DepthSizes }

NoBook == [prices |-> FALSE, ask_size |-> None, bid_size |-> None]
NoPost == [position_a |-> None, position_b |-> None,
           balance_a |-> None, balance_b |-> None, read |-> FALSE]

\* pos_a_retry and pos_b_retry before the second read; they are used up to
\* the call of _balance_positions and the false-alarm log line.
NoRetry == [position_a |-> None, position_b |-> None, read |-> FALSE]

\* check_trading_fee: what page.evaluate hands back.  "unreadable" is a
\* result without success (tab, table, row or cell not found, or an
\* exception); the others are the text of the fee cell.
FeeTexts == {"$0", "$0.00", "0", "$0.000", "$0.0000", "$0.01"}
FeeResults == {"unreadable"} \cup FeeTexts
NoFee == "unchecked"

\* The live exchange: the pages can show any of the readings above, an
\* order can succeed or fail, and a wait can outlast the balancer's budget.
Live == [fake |-> FALSE, position_a |-> 0, position_b |-> 0,
         dir_a |-> "none", dir_b |-> "none", diff0 |-> 0, orders |-> 0]

\* No OrderGuard call made yet.  A call is recorded with its name, the time
\* it was made at, whether it wrote the history file, and the name and time
\* of the call before it.
NoCall == [op |-> "none", at |-> 0, wrote |-> FALSE, raised |-> FALSE,
           prev_op |-> "none", prev_at |-> 0]

\* The history file as OrderGuard.__init__ leaves it on a healthy disk: it
\* holds a JSON object and can be rewritten.
Sound == [read |-> "ok", writable |-> TRUE]

VARIABLES
    pc,                   \* position of the monitor_spread coroutine
    position_cache, direction_cache, balance_cache,
    trade_mode, enable_auto_rotation, last_open_mode,
    spotter_mode,
    trade_count, session_count, last_fee_check_count,
    consecutive_errors,
    spread_pct,           \* local of monitor_spread, survives iterations
    diff, diff_retry,     \* what the two Spotter reads of this iteration showed
    balancer_called,      \* _balance_positions was entered in this iteration
    attempt,              \* local of _balance_positions
    reduce,               \* locals reduce_account / action of the attempt
    corrective_order,     \* _balance_positions called click_trade_button in this iteration
    book,                 \* locals ask_price .. bid_size of the depth check
    task_a, task_b,       \* the two legs handed to asyncio.gather
    dirs,                 \* locals dir_a, dir_b of the close-mode mapping
    results,              \* action_a_success, action_b_success
    post,                 \* locals position_a .. balance_b of the post-trade read
    fee_result,           \* what the fee cell of the trade history showed
    active_count,         \* what get_active_count returned last
    exit_reason,          \* ExitHandler.exit_reason
    exchange,             \* the account source and order executor behind the pages
    history,              \* OrderGuard: the timestamps in the history file
    now,                  \* OrderGuard: what datetime.now() returns
    guard_call,           \* OrderGuard: the last call made and what it did
    store,                \* OrderGuard: what opening the history file meets
    save_tasks,           \* save_trade_count_async tasks created, not yet run
    executor,             \* counts handed to the thread pool, not yet written
    persisted_count,      \* 'count' in the trade-count file
    retry                 \* the positions the second Spotter read returned

cacheVars == <<position_cache, direction_cache, balance_cache>>
modeVars == <<trade_mode, enable_auto_rotation, last_open_mode>>
countVars == <<trade_count, session_count, last_fee_check_count>>
spotterLocals == <<diff, diff_retry, balancer_called, retry>>
balancerLocals == <<attempt, reduce, corrective_order>>
sniperLocals == <<book, task_a, task_b, dirs, results, post, fee_result,
                  active_count>>

guardVars == <<history, now, guard_call, store>>
saveVars == <<save_tasks, executor, persisted_count>>

vars == <<pc, cacheVars, modeVars, spotter_mode, countVars, consecutive_errors,
          spread_pct, spotterLocals, balancerLocals, sniperLocals, exit_reason,
          exchange, guardVars, saveVars>>

NoDirs == [a \in Accounts |-> "none"]
NoReduce == [account |-> "none", action |-> "none"]

\* The locals of one iteration, as they are before the iteration's first read.
FreshSpotterLocals ==
    /\ diff' = "unread"
    /\ diff_retry' = "unread"
    /\ balancer_called' = FALSE
    /\ retry' = NoRetry

FreshBalancerLocals ==
    /\ attempt' = 0
    /\ reduce' = NoReduce
    /\ corrective_order' = FALSE

FreshSniperLocals ==
    /\ book' = NoBook
    /\ task_a' = "none"
    /\ task_b' = "none"
    /\ dirs' = NoDirs
    /\ results' = <<FALSE, FALSE>>
    /\ post' = NoPost
    /\ fee_result' = NoFee
    /\ active_count' = None

\* `continue`, or falling off the end of the loop body: the next iteration.
NextIteration ==
    /\ pc' = "spotter"
    /\ FreshSpotterLocals
    /\ FreshBalancerLocals
    /\ FreshSniperLocals

(***************************************************************************)
(* Construction: __init__, select_trade_mode_with_position, _setup_data_   *)
(* files and load_trade_count.                                             *)
(***************************************************************************)
Init ==
    /\ pc = "init"
    /\ position_cache = [a \in Accounts |-> None]
    /\ direction_cache = [a \in Accounts |-> "none"]
    /\ balance_cache = [a \in Accounts |-> None]
    /\ enable_auto_rotation \in BOOLEAN
    /\ trade_mode \in IF enable_auto_rotation THEN {1} ELSE {1, 2, 3}
    /\ last_open_mode = 1
    /\ spotter_mode = FALSE
    /\ trade_count = 0
    /\ session_count = 0
    /\ last_fee_check_count = 0
    /\ consecutive_errors = 0
    /\ spread_pct = Unbound
    /\ diff = "unread"
    /\ diff_retry = "unread"
    /\ balancer_called = FALSE
    /\ retry = NoRetry
    /\ attempt = 0
    /\ reduce = NoReduce
    /\ corrective_order = FALSE
    /\ book = NoBook
    /\ task_a = "none"
    /\ task_b = "none"
    /\ dirs = NoDirs
    /\ results = <<FALSE, FALSE>>
    /\ post = NoPost
    /\ fee_result = NoFee
    /\ active_count = None
    /\ exit_reason = "UNKNOWN"
    /\ exchange = Live
    /\ history = << >>
    /\ now = 0
    /\ guard_call = NoCall
    /\ store = Sound
    /\ save_tasks = 0
    /\ executor = {}
    /\ persisted_count = 0

\* cache[key] = value `if value is not None`
CacheUpdate(cache, va, vb) ==
    [a \in Accounts |->
        IF a = "account_a" THEN (IF va /= None THEN va ELSE cache[a])
                           ELSE (IF vb /= None THEN vb ELSE cache[a])]

\* direction_cache[key] = dir `if dir is not None`; a direction is one of
\* the three strings and never None.
DirectionUpdate(cache, da, db) ==
    [a \in Accounts |-> IF a = "account_a" THEN da ELSE db]

\* The query made before the loop starts: positions and directions are
\* cached, balances only go to the dashboard.
InitialQuery ==
    /\ pc = "init"
    /\ \E sp \in SnapshotPairs :
        /\ position_cache' = CacheUpdate(position_cache, sp[1][1], sp[2][1])
        /\ direction_cache' = DirectionUpdate(direction_cache, sp[1][2], sp[2][2])
    /\ pc' = "spotter"
    /\ UNCHANGED <<balance_cache, modeVars, spotter_mode, countVars,
                   consecutive_errors, spread_pct, spotterLocals,
                   balancerLocals, sniperLocals, exit_reason>>
    /\ UNCHANGED <<exchange, guardVars, saveVars>>

(***************************************************************************)
(* Phase 1, the Spotter.                                                   *)
(***************************************************************************)
\* `diff = abs(abs_pos_a - abs_pos_b)` of a pair of snapshots
SnapshotDiff(ra, rb) == Abs(OrZero(ra[1]) - OrZero(rb[1]))

\* The locals diff and diff_retry, kept as the side of epsilon they are on.
DiffClass(d) == IF d > Eps THEN "above" ELSE "within"

\* `if diff > 0.01:` of the first read
SpotterSuspects(d) == d > Eps

\* The second read compared with `>=`, so that a difference of exactly
\* epsilon is balanced as well.
DebounceConfirms_AtEpsilon(d) == d >= Eps

\* `if diff_retry > 0.01:` of the second read
DebounceConfirms(d) == d > Eps

\* First read of the iteration: all three caches are refreshed, then the
\* difference decides between the debounce wait and the Sniper.
SpotterFirstRead ==
    /\ pc = "spotter"
    /\ \E sp \in SnapshotPairs :
        /\ position_cache' = CacheUpdate(position_cache, sp[1][1], sp[2][1])
        /\ direction_cache' = DirectionUpdate(direction_cache, sp[1][2], sp[2][2])
        /\ balance_cache' = CacheUpdate(balance_cache, sp[1][3], sp[2][3])
        /\ diff' = DiffClass(SnapshotDiff(sp[1], sp[2]))
        /\ IF SpotterSuspects(SnapshotDiff(sp[1], sp[2]))
           THEN /\ pc' = "debounce"
                /\ UNCHANGED spotter_mode
           ELSE /\ pc' = "rotation"
                /\ spotter_mode' = FALSE
    /\ UNCHANGED <<modeVars, countVars, consecutive_errors, spread_pct,
                   diff_retry, balancer_called, retry, balancerLocals,
                   sniperLocals, exit_reason>>
    /\ UNCHANGED <<exchange, guardVars, saveVars>>

\* After the 2 s settle wait: second read.  Only the balance cache is
\* refreshed.  A confirmed imbalance enters _balance_positions.
SpotterSecondRead ==
    /\ pc = "debounce"
    /\ \E sp \in SnapshotPairs :
        /\ balance_cache' = CacheUpdate(balance_cache, sp[1][3], sp[2][3])
        /\ diff_retry' = DiffClass(SnapshotDiff(sp[1], sp[2]))
        /\ retry' = [position_a |-> sp[1][1], position_b |-> sp[2][1],
                     read |-> TRUE]
        /\ IF DebounceConfirms(SnapshotDiff(sp[1], sp[2]))
           THEN /\ spotter_mode' = TRUE
                /\ balancer_called' = TRUE
                /\ pc' = "balance"
           ELSE /\ pc' = "rotation"
                /\ UNCHANGED <<spotter_mode, balancer_called>>
    /\ UNCHANGED <<position_cache, direction_cache, modeVars, countVars,
                   consecutive_errors, spread_pct, diff, balancerLocals,
                   sniperLocals, exit_reason>>
    /\ UNCHANGED <<exchange, guardVars, saveVars>>

(***************************************************************************)
(* _balance_positions.                                                     *)
(***************************************************************************)
\* self.quantity, the size of every order: 0.01 BTC.
quantity == 10

\* What the two pages show to the balancer's snapshot: any reading on the
\* live exchange, the held positions on the deterministic source.
AccountSnapshots ==
    IF exchange.fake
    THEN { << <<exchange.position_a, exchange.dir_a, 300>>,
              <<exchange.position_b, exchange.dir_b, 300>> >> }
    ELSE SnapshotPairs

\* The order books the balancer can be shown: any on the live exchange, a
\* deep one on the deterministic source.
OrderBooks ==
    IF exchange.fake
    THEN { [prices |-> TRUE, ask_size |-> min_depth, bid_size |-> min_depth] }
    ELSE Books

\* What click_trade_button can return for the corrective order.
OrderResults == IF exchange.fake THEN {TRUE} ELSE BOOLEAN

\* The deterministic source after a successful corrective order on one
\* account: that account's position is one unit smaller.
Filled(ex, account) ==
    LET less(p) == IF p > quantity THEN p - quantity ELSE 0
        pa == IF account = "A" THEN less(ex.position_a) ELSE ex.position_a
        pb == IF account = "B" THEN less(ex.position_b) ELSE ex.position_b
    IN  [ex EXCEPT !.position_a = pa,
                   !.position_b = pb,
                   !.dir_a = IF pa = 0 THEN "none" ELSE ex.dir_a,
                   !.dir_b = IF pb = 0 THEN "none" ELSE ex.dir_b,
                   !.orders = ex.orders + 1]

\* The balance test that only accepts equal positions.
BalancerBalanced_ExactOnly(d) == d = 0

\* `if abs(current_diff) < 0.01:`
BalancerBalanced(current_diff) == Abs(current_diff) < Eps

\* The corrective order on the side that adds to the position.
CounterAction_SameSide(direction) == IF direction = "long" THEN "buy" ELSE "sell"

\* long -> sell, short -> buy
CounterAction(direction) == IF direction = "long" THEN "sell" ELSE "buy"

\* The return of the balancer without the `continue` behind it: the
\* iteration goes on into the Sniper.
BalancerReturn_FallThrough(balance_success) ==
    /\ spotter_mode' = (IF balance_success THEN FALSE ELSE spotter_mode)
    /\ pc' = "rotation"
    /\ UNCHANGED <<spotterLocals, balancerLocals, sniperLocals>>

\* `return balance_success` into monitor_spread, which clears spotter_mode on
\* success, sleeps 0.1 s and continues with the next iteration.
BalancerReturn(balance_success) ==
    /\ spotter_mode' = (IF balance_success THEN FALSE ELSE spotter_mode)
    /\ NextIteration

\* Head of the balancer's loop up to the await of the order book: attempt
\* budget, wall-clock budget, fresh snapshot, choice of account and action.
BalanceSnapshot ==
    /\ pc = "balance"
    /\ \/ /\ attempt >= MaxAttempts
          /\ BalancerReturn(FALSE)
       \/ /\ attempt < MaxAttempts
          /\ attempt > 0            \* elapsed_time > max_duration
          /\ ~exchange.fake
          /\ BalancerReturn(FALSE)
       \/ /\ attempt < MaxAttempts
          /\ \E sp \in AccountSnapshots :
              LET current_diff == OrZero(sp[1][1]) - OrZero(sp[2][1])
                  reduce_account == IF current_diff > 0 THEN "A" ELSE "B"
                  reduce_direction == IF current_diff > 0 THEN sp[1][2] ELSE sp[2][2]
                  reduce_position == IF current_diff > 0 THEN OrZero(sp[1][1])
                                                         ELSE OrZero(sp[2][1])
              IN  IF BalancerBalanced(current_diff) THEN BalancerReturn(TRUE)
                  ELSE IF reduce_direction = "none" THEN BalancerReturn(FALSE)
                  ELSE IF reduce_position < Eps THEN BalancerReturn(TRUE)
                  ELSE /\ reduce' = [account |-> reduce_account,
                                     action |-> CounterAction(reduce_direction)]
                       /\ pc' = "bal_depth"
                       /\ retry' = NoRetry
                       /\ UNCHANGED <<spotter_mode, diff, diff_retry,
                                      balancer_called, attempt,
                                      corrective_order, sniperLocals>>
    /\ UNCHANGED <<cacheVars, modeVars, countVars, consecutive_errors,
                   spread_pct, exit_reason>>
    /\ UNCHANGED <<exchange, guardVars, saveVars>>

\* `ask_size == -1 or bid_size == -1` passes; otherwise the side the order
\* consumes must reach min_depth.
BalancerDepthPasses(bk, action) ==
    \/ bk.ask_size = DepthUnreadable
    \/ bk.bid_size = DepthUnreadable
    \/ IF action = "sell" THEN bk.bid_size >= min_depth
                          ELSE bk.ask_size >= min_depth

\* The order book bk came back: unreadable prices or thin depth end the
\* attempt (sleep 2 s, attempt += 1, continue).
BalanceDepthOn(bk) ==
    /\ pc = "bal_depth"
    /\ IF bk.prices /\ BalancerDepthPasses(bk, reduce.action)
       THEN /\ pc' = "bal_order"
            /\ UNCHANGED attempt
       ELSE /\ pc' = "balance"
            /\ attempt' = attempt + 1
    /\ UNCHANGED <<cacheVars, modeVars, spotter_mode, countVars,
                   consecutive_errors, spread_pct, spotterLocals, reduce,
                   corrective_order, sniperLocals, exit_reason>>
    /\ UNCHANGED <<exchange, guardVars, saveVars>>

\* The await of get_order_book_with_depth on the page of the account to
\* reduce, and the depth check on what it returned.
BalanceDepth == \E bk \in OrderBooks : BalanceDepthOn(bk)

\* The corrective order without the `attempt += 1` behind it.
BalanceOrder_NoCount ==
    /\ pc = "bal_order"
    /\ \E success \in OrderResults :
        /\ corrective_order' = TRUE
        /\ pc' = "balance"
        /\ exchange' = IF exchange.fake /\ success
                       THEN Filled(exchange, reduce.account)
                       ELSE exchange
    /\ UNCHANGED <<cacheVars, modeVars, spotter_mode, countVars,
                   consecutive_errors, spread_pct, spotterLocals, attempt,
                   reduce, sniperLocals, exit_reason>>
    /\ UNCHANGED <<guardVars, saveVars>>

\* click_trade_button on the over-exposed account; either result ends the
\* attempt.
BalanceOrder ==
    /\ pc = "bal_order"
    /\ \E success \in OrderResults :
        /\ corrective_order' = TRUE
        /\ attempt' = attempt + 1
        /\ pc' = "balance"
        /\ exchange' = IF exchange.fake /\ success
                       THEN Filled(exchange, reduce.account)
                       ELSE exchange
    /\ UNCHANGED <<cacheVars, modeVars, spotter_mode, countVars,
                   consecutive_errors, spread_pct, spotterLocals, reduce,
                   sniperLocals, exit_reason>>
    /\ UNCHANGED <<guardVars, saveVars>>

(***************************************************************************)
(* The loop's exception handler and the auto-rotation state machine.       *)
(***************************************************************************)
\* A null spread read and the `except Exception:` of the loop body: count
\* the failure, warn and reset the counter at max_errors, then continue.
CountFailure ==
    /\ consecutive_errors' =
         (IF consecutive_errors + 1 >= MaxErrors THEN 0
                                                ELSE consecutive_errors + 1)
    /\ NextIteration

\* `max(abs_pos_a, abs_pos_b)` over the position cache
MaxSinglePosition ==
    LET a == Abs(OrZero(position_cache["account_a"]))
        b == Abs(OrZero(position_cache["account_b"]))
    IN  IF a >= b THEN a ELSE b

\* `if max_single_position >= self.TARGET_POSITION:`
TargetReached(p) == p >= TARGET_POSITION

\* `if max_single_position < 0.01:`
CloseComplete(p) == p < Eps

OtherOpenMode_Same(m) == m

\* `new_mode = 2 if self.last_open_mode == 1 else 1`
OtherOpenMode(m) == IF m = 1 THEN 2 ELSE 1
\* The rotation without the test of enable_auto_rotation.
Rotation_IgnoresManual ==
    /\ pc = "rotation"
    /\ pc' = "sniper"
    /\ IF ~spotter_mode
       THEN IF trade_mode \in {1, 2} /\ TargetReached(MaxSinglePosition)
            THEN /\ last_open_mode' = trade_mode
                 /\ trade_mode' = 3
            ELSE IF trade_mode = 3 /\ CloseComplete(MaxSinglePosition)
            THEN /\ trade_mode' = OtherOpenMode(last_open_mode)
                 /\ last_open_mode' = OtherOpenMode(last_open_mode)
            ELSE UNCHANGED <<trade_mode, last_open_mode>>
       ELSE UNCHANGED <<trade_mode, last_open_mode>>
    /\ retry' = NoRetry
    /\ UNCHANGED <<cacheVars, enable_auto_rotation, spotter_mode, countVars,
                   consecutive_errors, spread_pct, diff, diff_retry,
                   balancer_called, balancerLocals, sniperLocals, exit_reason>>
    /\ UNCHANGED <<exchange, guardVars, saveVars>>

Rotation ==
    /\ pc = "rotation"
    /\ pc' = "sniper"
    /\ IF enable_auto_rotation /\ ~spotter_mode
       THEN IF trade_mode \in {1, 2} /\ TargetReached(MaxSinglePosition)
            THEN /\ last_open_mode' = trade_mode
                 /\ trade_mode' = 3
            ELSE IF trade_mode = 3 /\ CloseComplete(MaxSinglePosition)
            THEN /\ trade_mode' = OtherOpenMode(last_open_mode)
                 /\ last_open_mode' = OtherOpenMode(last_open_mode)
            ELSE UNCHANGED <<trade_mode, last_open_mode>>
       ELSE UNCHANGED <<trade_mode, last_open_mode>>
    /\ retry' = NoRetry
    /\ UNCHANGED <<cacheVars, enable_auto_rotation, spotter_mode, countVars,
                   consecutive_errors, spread_pct, diff, diff_retry,
                   balancer_called, balancerLocals, sniperLocals, exit_reason>>
    /\ UNCHANGED <<exchange, guardVars, saveVars>>

(***************************************************************************)
(* Phase 2, the Sniper.                                                    *)
(***************************************************************************)
\* The spread read, skipped while spotter_mode is set.  Before it, the
\* 24 h trade counter: at max_trades the loop resets the counter when the
\* reset time has passed and otherwise waits 60 s and continues.
\* trade_count starts at 0 in every run and the session limit lies below
\* max_trades, so a run ends before the counter gets there.
SniperRead ==
    /\ pc = "sniper"
    /\ IF spotter_mode
       THEN /\ pc' = "gate"
            /\ UNCHANGED <<trade_count, consecutive_errors, spread_pct,
                           spotterLocals, balancerLocals, sniperLocals>>
       ELSE \E day_passed \in BOOLEAN, s \in SpreadReads :
              IF trade_count >= MaxTrades /\ ~day_passed
              THEN /\ NextIteration
                   /\ UNCHANGED <<trade_count, consecutive_errors, spread_pct>>
              ELSE /\ trade_count' =
                        (IF trade_count >= MaxTrades THEN 0 ELSE trade_count)
                   /\ spread_pct' = s
                   /\ IF s = None
                      THEN CountFailure
                      ELSE /\ consecutive_errors' = 0
                           /\ pc' = "gate"
                           /\ UNCHANGED <<spotterLocals, balancerLocals,
                                          sniperLocals>>
    /\ UNCHANGED <<cacheVars, modeVars, spotter_mode, session_count,
                   last_fee_check_count, exit_reason>>
    /\ UNCHANGED <<exchange, guardVars, saveVars>>

\* The trigger with `<=` against the threshold.
SpreadTriggers_AtThreshold(s) == s /= None /\ s >= 0 /\ s <= spread_threshold

\* `spread_pct is not None and spread_pct >= 0 and spread_pct < self.spread_threshold`
SpreadTriggers(s) == s /= None /\ s >= 0 /\ s < spread_threshold

\* The trigger test.  A spread_pct that was never assigned raises, which the
\* loop's handler turns into a counted failure.
SniperGate ==
    /\ pc = "gate"
    /\ IF spread_pct = Unbound
       THEN CountFailure
       ELSE IF SpreadTriggers(spread_pct)
       THEN /\ pc' = "depth"
            /\ UNCHANGED <<consecutive_errors, spotterLocals, balancerLocals,
                           sniperLocals>>
       ELSE /\ NextIteration
            /\ UNCHANGED consecutive_errors
    /\ UNCHANGED <<cacheVars, modeVars, spotter_mode, countVars, spread_pct,
                   exit_reason>>
    /\ UNCHANGED <<exchange, guardVars, saveVars>>

\* get_order_book_with_depth returned.
ReadDepth ==
    /\ pc = "depth"
    /\ \E bk \in Books : book' = bk
    /\ pc' = "depthcheck"
    /\ UNCHANGED <<cacheVars, modeVars, spotter_mode, countVars,
                   consecutive_errors, spread_pct, spotterLocals,
                   balancerLocals, task_a, task_b, dirs, results, post,
                   fee_result, active_count, exit_reason>>
    /\ UNCHANGED <<exchange, guardVars, saveVars>>

\* depth_check_passed of the Sniper
SniperDepthPasses(bk) ==
    \/ bk.ask_size = DepthUnreadable
    \/ bk.bid_size = DepthUnreadable
    \/ (bk.ask_size >= min_depth /\ bk.bid_size >= min_depth)

\* The close-mode mapping without the test for a position below 0.01.
CloseAction_NoDust(pos, dir) ==
    IF dir = "long" THEN "sell"
    ELSE IF dir = "short" THEN "buy"
    ELSE "skip"

\* Close mode, one account: skip a position below 0.01, sell a long, buy a
\* short, skip an unknown direction.
CloseAction(pos, dir) ==
    IF pos < Eps THEN "skip"
    ELSE IF dir = "long" THEN "sell"
    ELSE IF dir = "short" THEN "buy"
    ELSE "skip"

\* get_position_direction_by_color, as the close-mode quick query sees it
QuickDirs == {"long", "short", "none"}

\* `if not isinstance(quick_dir, Exception) and quick_dir != "none": dir = quick_dir`
QuickDir(cached, quick) == IF quick \in {"none", "raise"} THEN cached ELSE quick

\* print_exit_summary formats the cached positions and balances and raises
\* on a cache entry that is still None.
ExitSummaryRaises ==
    \E a \in Accounts : position_cache[a] = None \/ balance_cache[a] = None

\* Close mode between the depth check and asyncio.gather.
CloseModeFire(count) ==
    \E qa \in QuickDirs, qb \in QuickDirs :
      LET queried == direction_cache["account_a"] = "none"
                     \/ direction_cache["account_b"] = "none"
          dir_a == IF queried THEN QuickDir(direction_cache["account_a"], qa)
                              ELSE direction_cache["account_a"]
          dir_b == IF queried THEN QuickDir(direction_cache["account_b"], qb)
                              ELSE direction_cache["account_b"]
          pos_a == position_cache["account_a"]
          pos_b == position_cache["account_b"]
          total_position == Abs(OrZero(pos_a)) + Abs(OrZero(pos_b))
          unreadable == pos_a = None \/ pos_b = None
      IN  IF dir_a = "none" /\ dir_b = "none"
          THEN /\ IF unreadable THEN CountFailure
                                ELSE NextIteration /\ UNCHANGED consecutive_errors
               /\ UNCHANGED <<trade_mode, exit_reason>>
          ELSE IF total_position < Eps
          THEN IF enable_auto_rotation
               THEN /\ trade_mode' = 1
                    /\ NextIteration
                    /\ UNCHANGED <<consecutive_errors, exit_reason>>
               ELSE IF ExitSummaryRaises
               THEN /\ CountFailure
                    /\ UNCHANGED <<trade_mode, exit_reason>>
               ELSE /\ pc' = "done"
                    /\ active_count' = count
                    /\ UNCHANGED <<trade_mode, exit_reason, consecutive_errors,
                                   spotterLocals, balancerLocals, book, task_a,
                                   task_b, dirs, results, post, fee_result>>
          ELSE IF unreadable
          THEN /\ CountFailure
               /\ UNCHANGED <<trade_mode, exit_reason>>
          ELSE IF CloseAction(pos_a, dir_a) = "skip"
                  /\ CloseAction(pos_b, dir_b) = "skip"
          THEN /\ NextIteration
               /\ UNCHANGED <<trade_mode, exit_reason, consecutive_errors>>
          ELSE /\ task_a' = CloseAction(pos_a, dir_a)
               /\ task_b' = CloseAction(pos_b, dir_b)
               /\ dirs' = [a \in Accounts |->
                             IF a = "account_a" THEN dir_a ELSE dir_b]
               /\ pc' = "legs"
               /\ active_count' = count
               /\ UNCHANGED <<trade_mode, exit_reason, consecutive_errors,
                              spotterLocals, balancerLocals, book, results,
                              post, fee_result>>

\* What get_status_info can count in the history file, which earlier runs
\* share: nothing, safety_threshold entries, max_orders entries.
ActiveCounts == {0, safety_threshold, max_orders}

\* The count held against safety_threshold as a gate.
OrderGuardBlocks_AtThreshold(count) == count >= safety_threshold

\* `if active_count >= self.order_guard.safety_threshold:` only writes a
\* log line; the count stops nothing.
OrderGuardBlocks(count) == FALSE

\* The depth check and, when it passes, the 24 h count and the mapping from
\* the trade mode to the two legs.
SniperFire ==
    /\ pc = "depthcheck"
    /\ IF ~book.prices \/ ~SniperDepthPasses(book)
       THEN /\ NextIteration
            /\ UNCHANGED <<trade_mode, exit_reason, consecutive_errors>>
       ELSE \E count \in ActiveCounts :
              IF OrderGuardBlocks(count)
              THEN /\ NextIteration
                   /\ UNCHANGED <<trade_mode, exit_reason, consecutive_errors>>
              ELSE IF trade_mode = 1
              THEN /\ task_a' = "buy"
                   /\ task_b' = "sell"
                   /\ pc' = "legs"
                   /\ active_count' = count
                   /\ UNCHANGED <<trade_mode, exit_reason, consecutive_errors,
                                  spotterLocals, balancerLocals, book, dirs,
                                  results, post, fee_result>>
              ELSE IF trade_mode = 2
              THEN /\ task_a' = "sell"
                   /\ task_b' = "buy"
                   /\ pc' = "legs"
                   /\ active_count' = count
                   /\ UNCHANGED <<trade_mode, exit_reason, consecutive_errors,
                                  spotterLocals, balancerLocals, book, dirs,
                                  results, post, fee_result>>
              ELSE CloseModeFire(count)
    /\ UNCHANGED <<cacheVars, enable_auto_rotation, last_open_mode,
                   spotter_mode, countVars, spread_pct>>
    /\ UNCHANGED <<exchange, guardVars, saveVars>>

\* What one awaited leg gives back: True, False or an exception.
LegOutcomes == {"true", "false", "raise"}

\* The result of gather taken as it comes: an exception object is truthy.
LegSuccess_Unconverted(task, outcome) == task /= "skip" /\ outcome /= "false"

\* `results[i] if not isinstance(results[i], Exception) else False`; the
\* placeholder of a skipped leg returns None.
LegSuccess(task, outcome) == task /= "skip" /\ outcome = "true"

\* The trade counted only when both legs succeeded.
TradeCounts_BothLegs(sa, sb) == sa /\ sb

\* Every triggered trade counted, whatever its legs returned.
TradeCounts_Always(sa, sb) == TRUE

\* `if action_a_success or action_b_success:`
TradeCounts(sa, sb) == sa \/ sb

\* The trade counted in memory only, without the order guard's record.
CountTrade_NoGuard ==
    /\ trade_count' = trade_count + 1
    /\ UNCHANGED session_count

\* `self.increment_trade_count()` and `self.order_guard.add_order()`: one
\* more trade in trade_count and in the guard's session_count.
CountTrade ==
    /\ trade_count' = trade_count + 1
    /\ session_count' = session_count + 1

\* asyncio.gather(task_a, task_b, return_exceptions=True) came back with
\* outcome oa of leg A and ob of leg B; a trade with a successful leg is
\* counted by increment_trade_count and OrderGuard.add_order.
LegsDoneOn(oa, ob) ==
    /\ pc = "legs"
    /\ LET sa == LegSuccess(task_a, oa)
           sb == LegSuccess(task_b, ob)
       IN  IF TradeCounts(sa, sb)
           THEN /\ CountTrade
                /\ results' = <<sa, sb>>
                /\ pc' = "posttrade"
                /\ UNCHANGED <<spotterLocals, balancerLocals, post, fee_result>>
                /\ active_count' = None
                /\ book' = NoBook
                /\ task_a' = "none"
                /\ task_b' = "none"
                /\ dirs' = NoDirs
           ELSE /\ pc' = "spotter"
                /\ results' = <<sa, sb>>
                /\ FreshSpotterLocals
                /\ FreshBalancerLocals
                /\ book' = NoBook
                /\ task_a' = "none"
                /\ task_b' = "none"
                /\ dirs' = NoDirs
                /\ post' = NoPost
                /\ fee_result' = NoFee
                /\ active_count' = None
                /\ UNCHANGED <<trade_count, session_count>>
    /\ UNCHANGED <<cacheVars, modeVars, spotter_mode, last_fee_check_count,
                   consecutive_errors, spread_pct, exit_reason>>
    /\ UNCHANGED <<exchange, guardVars, saveVars>>

\* The joint await of the two legs, each of which returns true or false or
\* raises.
LegsDone == \E oa \in LegOutcomes, ob \in LegOutcomes : LegsDoneOn(oa, ob)

\* After the 5 s settle wait: both accounts are read again and the caches
\* refreshed.
PostTradeRead ==
    /\ pc = "posttrade"
    /\ \E sp \in SnapshotPairs :
        /\ position_cache' = CacheUpdate(position_cache, sp[1][1], sp[2][1])
        /\ direction_cache' = DirectionUpdate(direction_cache, sp[1][2], sp[2][2])
        /\ balance_cache' = CacheUpdate(balance_cache, sp[1][3], sp[2][3])
        /\ post' = [position_a |-> sp[1][1], position_b |-> sp[2][1],
                    balance_a |-> sp[1][3], balance_b |-> sp[2][3], read |-> TRUE]
    /\ pc' = "exitchecks"
    /\ UNCHANGED <<modeVars, spotter_mode, countVars, consecutive_errors,
                   spread_pct, spotterLocals, balancerLocals, book, task_a,
                   task_b, dirs, results, fee_result, active_count,
                   exit_reason>>
    /\ UNCHANGED <<exchange, guardVars, saveVars>>

\* `if position_diff > 0.05:` under `position_a is not None and position_b is not None`
CeilingExceeded(p) ==
    /\ p.position_a /= None
    /\ p.position_b /= None
    /\ Abs(Abs(p.position_a) - Abs(p.position_b)) > CeilingDiff

\* The balance test with `<=` against the floor.
BalanceLow_AtFloor(p) ==
    \/ (p.balance_a /= None /\ p.balance_a <= min_available_balance)
    \/ (p.balance_b /= None /\ p.balance_b <= min_available_balance)

\* a non-null balance below min_available_balance on either account
BalanceLow(p) ==
    \/ (p.balance_a /= None /\ p.balance_a < min_available_balance)
    \/ (p.balance_b /= None /\ p.balance_b < min_available_balance)

\* The session limit compared with `>`.
should_exit_OffByOne == session_count > SessionLimit

\* OrderGuard.should_exit
should_exit == session_count >= SessionLimit

\* `session_count > 0 and session_count % FEE_CHECK_INTERVAL == 0 and
\*  session_count != self.last_fee_check_count`
FeeCheckDue ==
    /\ session_count > 0
    /\ session_count % FeeCheckInterval = 0
    /\ session_count /= last_fee_check_count

\* graceful_exit(reason): ExitHandler.set_exit records the reason.
graceful_exit(reason) == exit_reason' = reason

\* `return` out of monitor_spread
Return ==
    /\ pc' = "done"
    /\ UNCHANGED <<spotterLocals, balancerLocals, sniperLocals>>

\* The manual cap applied whatever the rotation setting.
ManualCapReached_AnyMode == trade_count >= ForceExitTrades

\* `if not self.enable_auto_rotation and self.trade_count >= self.force_exit_trades:`
ManualCapReached == ~enable_auto_rotation /\ trade_count >= ForceExitTrades

\* The exit conditions after a counted trade, in the order of the code, up
\* to the call of check_trading_fee.
ExitChecks ==
    /\ pc = "exitchecks"
    /\ IF CeilingExceeded(post)
       THEN /\ Return
            /\ UNCHANGED <<exit_reason, last_fee_check_count>>
       ELSE IF trade_mode /= 3 /\ BalanceLow(post)
       THEN /\ graceful_exit("BALANCE_LOW")
            /\ Return
            /\ UNCHANGED last_fee_check_count
       ELSE IF ManualCapReached
       THEN /\ graceful_exit("MANUAL_EXIT")
            /\ Return
            /\ UNCHANGED last_fee_check_count
       ELSE IF should_exit
       THEN /\ graceful_exit("SESSION_LIMIT")
            /\ Return
            /\ UNCHANGED last_fee_check_count
       ELSE IF FeeCheckDue
       THEN /\ last_fee_check_count' = session_count
            /\ pc' = "feecheck"
            /\ UNCHANGED <<exit_reason, spotterLocals, balancerLocals,
                           sniperLocals>>
       ELSE /\ NextIteration
            /\ UNCHANGED <<exit_reason, last_fee_check_count>>
    /\ UNCHANGED <<cacheVars, modeVars, spotter_mode, trade_count,
                   session_count, consecutive_errors, spread_pct>>
    /\ UNCHANGED <<exchange, guardVars, saveVars>>

\* check_trading_fee, first part: the trade-history tab is opened and
\* page.evaluate reads the fee cell of the first row.
FeeCheck ==
    /\ pc = "feecheck"
    /\ \E r \in FeeResults : fee_result' = r
    /\ pc' = "feeresult"
    /\ UNCHANGED <<cacheVars, modeVars, spotter_mode, countVars,
                   consecutive_errors, spread_pct, spotterLocals,
                   balancerLocals, book, task_a, task_b, dirs, results, post,
                   active_count, exit_reason>>
    /\ UNCHANGED <<exchange, guardVars, saveVars>>

\* A fee text other than the four zero spellings counts as zero too.
check_trading_fee_NeverFalse(r) == TRUE

\* The value check_trading_fee returns: True when the result could not be
\* read, otherwise `fee_text in ['$0', '$0.00', '0', '$0.000']`.
check_trading_fee(r) ==
    IF r = "unreadable" THEN TRUE
    ELSE r \in {"$0", "$0.00", "0", "$0.000"}

\* `if not fee_is_zero:` graceful_exit(FEE_DETECTED) and return, else on to
\* the end of the loop body.
FeeVerdict ==
    /\ pc = "feeresult"
    /\ IF check_trading_fee(fee_result)
       THEN /\ NextIteration
            /\ UNCHANGED exit_reason
       ELSE /\ graceful_exit("FEE_DETECTED")
            /\ Return
    /\ UNCHANGED <<cacheVars, modeVars, spotter_mode, countVars,
                   consecutive_errors, spread_pct>>
    /\ UNCHANGED <<exchange, guardVars, saveVars>>

Next ==
    \/ InitialQuery
    \/ SpotterFirstRead
    \/ SpotterSecondRead
    \/ BalanceSnapshot
    \/ BalanceDepth
    \/ BalanceOrder
    \/ Rotation
    \/ SniperRead
    \/ SniperGate
    \/ ReadDepth
    \/ SniperFire
    \/ LegsDone
    \/ PostTradeRead
    \/ ExitChecks
    \/ FeeCheck
    \/ FeeVerdict

Spec == Init /\ [][Next]_vars

\* An external interrupt while the loop runs.  Whether it surfaces inside the
\* coroutine as KeyboardInterrupt (the handler at the foot of the loop logs
\* and re-raises, run() logs) or as the cancellation of the task, the
\* coroutine is unwound through run()'s finally clause: nothing calls
\* graceful_exit or touches the exit handler, and the locals of
\* monitor_spread go with its frame.
Interrupt ==
    /\ pc \notin {"init", "done", "interrupted"}
    /\ pc' = "interrupted"
    /\ FreshSpotterLocals
    /\ FreshBalancerLocals
    /\ FreshSniperLocals
    /\ spread_pct' = Unbound
    /\ consecutive_errors' = 0
    /\ UNCHANGED <<cacheVars, modeVars, spotter_mode, countVars, exit_reason>>
    /\ UNCHANGED <<exchange, guardVars, saveVars>>

NextInterrupt ==
    \/ Next
    \/ Interrupt

SpecInterrupt == Init /\ [][NextInterrupt]_vars

\* `except PlaywrightTimeoutError:` of the loop body, for a timeout that
\* reaches it from the spread read: count it; below max_errors sleep and
\* continue, otherwise fall out of the try statement into the next
\* iteration.  The counter is not reset here.  It is followed up to one
\* past max_errors.
PlaywrightTimeout ==
    /\ pc = "sniper"
    /\ consecutive_errors <= MaxErrors
    /\ consecutive_errors' = consecutive_errors + 1
    /\ NextIteration
    /\ UNCHANGED <<cacheVars, modeVars, spotter_mode, countVars, spread_pct,
                   exit_reason>>
    /\ UNCHANGED <<exchange, guardVars, saveVars>>

NextTimeouts ==
    \/ Next
    \/ PlaywrightTimeout

SpecTimeouts == Init /\ [][NextTimeouts]_vars

(***************************************************************************)
(* OrderGuard (src/order_guard.py) on its own: the history file, the clock *)
(* and the session counter under add_order and get_active_count.           *)
(***************************************************************************)
\* The window test with `>=`: a timestamp exactly 24 hours old still counts.
IsActive_AtCutoff(ts, t) == ts /= NotATimestamp /\ ts >= t - hours_24

\* `ts = datetime.fromisoformat(ts_str)` succeeded and `ts > cutoff_time`
IsActive(ts, t) == ts /= NotATimestamp /\ ts > t - hours_24

\* The cleaning that also drops the oldest active timestamp.
RECURSIVE clean_old_orders_DropOldest(_, _)
clean_old_orders_DropOldest(timestamps, t) ==
    IF timestamps = << >> THEN << >>
    ELSE IF IsActive(Head(timestamps), t)
         THEN Tail(timestamps)
         ELSE clean_old_orders_DropOldest(Tail(timestamps), t)

\* _clean_old_orders: the active timestamps, in the order of the file.
RECURSIVE clean_old_orders(_, _)
clean_old_orders(timestamps, t) ==
    IF timestamps = << >> THEN << >>
    ELSE IF IsActive(Head(timestamps), t)
         THEN <<Head(timestamps)>> \o clean_old_orders(Tail(timestamps), t)
         ELSE clean_old_orders(Tail(timestamps), t)

\* add_order writing the new timestamp twice.
add_order_Twice(timestamps, t) ==
    clean_old_orders(Append(Append(timestamps, t), t), t)

\* add_order: the list add_order writes back, the timestamps read with the
\* current one appended, cleaned.
add_order(timestamps, t) == clean_old_orders(Append(timestamps, t), t)

\* What a history file left by earlier runs can hold.
Timestamps == {NotATimestamp} \cup (0 .. 2)
Histories ==
    { << >> } \cup { <<x>> : x \in Timestamps }
              \cup { <<x, y>> : x \in Timestamps, y \in Timestamps }

\* Everything of the monitor loop, which OrderGuard does not touch.
loopVars == <<pc, cacheVars, modeVars, spotter_mode, trade_count,
              last_fee_check_count, consecutive_errors, spread_pct,
              spotterLocals, balancerLocals, book, task_a, task_b, dirs,
              results, post, fee_result, exit_reason, exchange, saveVars>>

\* OrderGuard.__init__ on an existing history file.
InitGuard ==
    /\ pc = "init"
    /\ position_cache = [a \in Accounts |-> None]
    /\ direction_cache = [a \in Accounts |-> "none"]
    /\ balance_cache = [a \in Accounts |-> None]
    /\ enable_auto_rotation = TRUE
    /\ trade_mode = 1
    /\ last_open_mode = 1
    /\ spotter_mode = FALSE
    /\ trade_count = 0
    /\ session_count = 0
    /\ last_fee_check_count = 0
    /\ consecutive_errors = 0
    /\ spread_pct = Unbound
    /\ diff = "unread"
    /\ diff_retry = "unread"
    /\ balancer_called = FALSE
    /\ retry = NoRetry
    /\ attempt = 0
    /\ reduce = NoReduce
    /\ corrective_order = FALSE
    /\ book = NoBook
    /\ task_a = "none"
    /\ task_b = "none"
    /\ dirs = NoDirs
    /\ results = <<FALSE, FALSE>>
    /\ post = NoPost
    /\ fee_result = NoFee
    /\ active_count = None
    /\ exit_reason = "UNKNOWN"
    /\ exchange = Live
    /\ history \in Histories
    /\ now \in {0, 1}
    /\ guard_call = NoCall
    /\ store = Sound
    /\ save_tasks = 0
    /\ executor = {}
    /\ persisted_count = 0

\* _read_history by what the file holds: the timestamps of a healthy file;
\* the empty list when the file is missing, cannot be opened or read
\* (IOError) or is not JSON (JSONDecodeError); and an exception that the
\* except clause does not name when the file is JSON but not an object
\* (AttributeError from data.get) or is not UTF-8 (UnicodeDecodeError).
ReadEmpty == {"missing", "io_error", "bad_json"}
ReadRaises == {"not_object", "bad_encoding"}

read_history(file, timestamps) ==
    IF file.read = "ok" THEN [raised |-> FALSE, timestamps |-> timestamps]
    ELSE IF file.read \in ReadEmpty
         THEN [raised |-> FALSE, timestamps |-> << >>]
         ELSE [raised |-> TRUE, timestamps |-> << >>]

\* _write_history: the file holds the new list afterwards, or the IOError is
\* swallowed and the file stays as it was.
write_history(timestamps) ==
    IF store.writable
    THEN history' = timestamps /\ store' = [store EXCEPT !.read = "ok"]
    ELSE UNCHANGED <<history, store>>

\* get_active_count: read, clean, write back only when the length changed.
GetActiveCount ==
    LET read == read_history(store, history)
        timestamps == read.timestamps
        active_timestamps == clean_old_orders(timestamps, now)
        changed == Len(active_timestamps) /= Len(timestamps)
    IN  IF read.raised
        THEN /\ guard_call' = [op |-> "get_active_count", at |-> now,
                               wrote |-> FALSE, raised |-> TRUE,
                               prev_op |-> guard_call.op,
                               prev_at |-> guard_call.at]
             /\ UNCHANGED <<history, store, active_count, session_count, now,
                            loopVars>>
        ELSE /\ IF changed THEN write_history(active_timestamps)
                           ELSE UNCHANGED <<history, store>>
             /\ active_count' = Len(active_timestamps)
             /\ guard_call' = [op |-> "get_active_count", at |-> now,
                               wrote |-> changed /\ store.writable,
                               raised |-> FALSE,
                               prev_op |-> guard_call.op,
                               prev_at |-> guard_call.at]
             /\ UNCHANGED <<session_count, now, loopVars>>

\* add_order: read, append the current time, clean, write, count.
AddOrder ==
    LET read == read_history(store, history)
    IN  /\ Len(history) < MaxHistory
        /\ session_count <= SessionLimit
        /\ IF read.raised
           THEN /\ guard_call' = [op |-> "add_order", at |-> now,
                                  wrote |-> FALSE, raised |-> TRUE,
                                  prev_op |-> guard_call.op,
                                  prev_at |-> guard_call.at]
                /\ UNCHANGED <<history, store, session_count>>
           ELSE /\ write_history(add_order(read.timestamps, now))
                /\ session_count' = session_count + 1
                /\ guard_call' = [op |-> "add_order", at |-> now,
                                  wrote |-> store.writable, raised |-> FALSE,
                                  prev_op |-> guard_call.op,
                                  prev_at |-> guard_call.at]
        /\ UNCHANGED <<active_count, now, loopVars>>

\* Time passes.
Tick ==
    /\ now < MaxClock
    /\ now' = now + 1
    /\ UNCHANGED <<history, guard_call, store, session_count, active_count,
                   loopVars>>

NextGuard ==
    \/ GetActiveCount
    \/ AddOrder
    \/ Tick

SpecGuard == InitGuard /\ [][NextGuard]_vars

\* OrderGuard over a history file in any condition: the same calls, started
\* with a file that may be missing, unreadable, damaged or read-only.
Stores == [read : {"ok"} \cup ReadEmpty \cup ReadRaises, writable : BOOLEAN]

InitFaulty ==
    /\ pc = "init"
    /\ position_cache = [a \in Accounts |-> None]
    /\ direction_cache = NoDirs
    /\ balance_cache = [a \in Accounts |-> None]
    /\ enable_auto_rotation = TRUE
    /\ trade_mode = 1
    /\ last_open_mode = 1
    /\ spotter_mode = FALSE
    /\ trade_count = 0
    /\ session_count = 0
    /\ last_fee_check_count = 0
    /\ consecutive_errors = 0
    /\ spread_pct = Unbound
    /\ diff = "unread"
    /\ diff_retry = "unread"
    /\ balancer_called = FALSE
    /\ retry = NoRetry
    /\ attempt = 0
    /\ reduce = NoReduce
    /\ corrective_order = FALSE
    /\ book = NoBook
    /\ task_a = "none"
    /\ task_b = "none"
    /\ dirs = NoDirs
    /\ results = <<FALSE, FALSE>>
    /\ post = NoPost
    /\ fee_result = NoFee
    /\ active_count = None
    /\ exit_reason = "UNKNOWN"
    /\ exchange = Live
    /\ store \in Stores
    /\ history \in (IF store.read = "ok" THEN Histories ELSE {<< >>})
    /\ now \in {0, 1}
    /\ guard_call = NoCall
    /\ save_tasks = 0
    /\ executor = {}
    /\ persisted_count = 0

SpecFaulty == InitFaulty /\ [][NextGuard]_vars

(***************************************************************************)
(* The trade counter and its file (src/main.py:955-1028).  The monitor     *)
(* loop is reduced to what touches the counter: a counted trade, the       *)
(* awaits at which the event loop runs the tasks created by                *)
(* increment_trade_count, the thread pool that does the writes, the return *)
(* of the loop and the end of the process.                                 *)
(***************************************************************************)

\* load_trade_count sets the in-memory counter to 0 at every start and
\* rewrites the file only when it is missing or its reset_time is a day
\* old: otherwise the file keeps the count the previous run left in it.
PreviousCounts == 0 .. 1

InitSave ==
    /\ pc = "loop"
    /\ position_cache = [a \in Accounts |-> None]
    /\ direction_cache = NoDirs
    /\ balance_cache = [a \in Accounts |-> None]
    /\ enable_auto_rotation = TRUE
    /\ trade_mode = 1
    /\ last_open_mode = 1
    /\ spotter_mode = FALSE
    /\ trade_count = 0
    /\ session_count = 0
    /\ last_fee_check_count = 0
    /\ consecutive_errors = 0
    /\ spread_pct = Unbound
    /\ diff = "unread"
    /\ diff_retry = "unread"
    /\ balancer_called = FALSE
    /\ retry = NoRetry
    /\ attempt = 0
    /\ reduce = NoReduce
    /\ corrective_order = FALSE
    /\ book = NoBook
    /\ task_a = "none"
    /\ task_b = "none"
    /\ dirs = NoDirs
    /\ results = <<FALSE, FALSE>>
    /\ post = NoPost
    /\ fee_result = NoFee
    /\ active_count = None
    /\ exit_reason = "UNKNOWN"
    /\ exchange = Live
    /\ history = << >>
    /\ now = 0
    /\ guard_call = NoCall
    /\ store = Sound
    /\ save_tasks = 0
    /\ executor = {}
    /\ persisted_count \in PreviousCounts

\* Everything but the counter, its file and the position of the loop.
counterFrame == <<cacheVars, modeVars, spotter_mode, session_count,
                  last_fee_check_count, consecutive_errors, spread_pct,
                  spotterLocals, balancerLocals, sniperLocals, exit_reason,
                  exchange, guardVars>>

\* increment_trade_count: count in memory, create the task, return.  The
\* loop awaits between two counted trades, so the task of the trade before
\* has started by now.
IncrementTradeCount ==
    /\ pc = "loop"
    /\ trade_count < MaxTrades
    /\ save_tasks = 0
    /\ trade_count' = trade_count + 1
    /\ save_tasks' = save_tasks + 1
    /\ UNCHANGED <<pc, executor, persisted_count, counterFrame>>

\* save_trade_count_async up to its await: the task takes the count as it is
\* when the task runs and hands write_file to the default thread pool.
SaveTradeCountAsync ==
    /\ save_tasks > 0
    /\ save_tasks' = save_tasks - 1
    /\ executor' = executor \cup {trade_count}
    /\ UNCHANGED <<pc, trade_count, persisted_count, counterFrame>>

\* write_file in a pool thread: any of the writes handed over runs next; it
\* replaces the file, or fails and the bare except swallows the error.
WriteFile ==
    \E count \in executor, written \in BOOLEAN :
        /\ executor' = executor \ {count}
        /\ persisted_count' = IF written THEN count ELSE persisted_count
        /\ UNCHANGED <<pc, trade_count, save_tasks, counterFrame>>

\* monitor_spread returns; every return comes after an await that follows
\* the last counted trade.
LoopReturns ==
    /\ pc = "loop"
    /\ save_tasks = 0
    /\ pc' = "returned"
    /\ UNCHANGED <<trade_count, saveVars, counterFrame>>

\* run() finishes and the interpreter exits once the pool threads are done.
ProcessExit ==
    /\ pc = "returned"
    /\ executor = {}
    /\ pc' = "exited"
    /\ UNCHANGED <<trade_count, saveVars, counterFrame>>

NextSave ==
    \/ IncrementTradeCount
    \/ SaveTradeCountAsync
    \/ WriteFile
    \/ LoopReturns
    \/ ProcessExit

SpecSave == InitSave /\ [][NextSave]_vars

(***************************************************************************)
(* _balance_positions on its own, entered from a confirmed imbalance, over *)
(* a deterministic account source: the pages show the positions the source *)
(* holds, the book is deep, every corrective order succeeds and takes one  *)
(* unit off the account it was placed on, and no wait outlasts the 45 s.   *)
(***************************************************************************)
\* The differences the source starts from: every half unit up to as many
\* units as the balancer has attempts.
Diff0s == { k * (quantity \div 2) : k \in 0 .. 2 * MaxAttempts }

\* The sources: the smaller position, the difference, which account is the
\* larger and the direction of the positions.
Sources ==
    { [fake |-> TRUE,
       position_a |-> IF larger = "A" THEN base + d ELSE base,
       position_b |-> IF larger = "B" THEN base + d ELSE base,
       dir_a |-> IF (IF larger = "A" THEN base + d ELSE base) = 0
                 THEN "none" ELSE dir,
       dir_b |-> IF (IF larger = "B" THEN base + d ELSE base) = 0
                 THEN "none" ELSE IF dir = "long" THEN "short" ELSE "long",
       diff0 |-> d,
       orders |-> 0] :
      base \in {0, quantity}, d \in Diff0s, larger \in {"A", "B"},
      dir \in {"long", "short"} }

InitConverge ==
    /\ pc = "balance"
    /\ exchange \in Sources
    /\ position_cache = [a \in Accounts |-> None]
    /\ direction_cache = [a \in Accounts |-> "none"]
    /\ balance_cache = [a \in Accounts |-> None]
    /\ enable_auto_rotation = FALSE
    /\ trade_mode = 1
    /\ last_open_mode = 1
    /\ spotter_mode = TRUE
    /\ trade_count = 0
    /\ session_count = 0
    /\ last_fee_check_count = 0
    /\ consecutive_errors = 0
    /\ spread_pct = Unbound
    /\ diff = "above"
    /\ diff_retry = "above"
    /\ balancer_called = TRUE
    /\ retry = NoRetry
    /\ attempt = 0
    /\ reduce = NoReduce
    /\ corrective_order = FALSE
    /\ book = NoBook
    /\ task_a = "none"
    /\ task_b = "none"
    /\ dirs = NoDirs
    /\ results = <<FALSE, FALSE>>
    /\ post = NoPost
    /\ fee_result = NoFee
    /\ active_count = None
    /\ exit_reason = "UNKNOWN"
    /\ history = << >>
    /\ now = 0
    /\ guard_call = NoCall
    /\ store = Sound
    /\ save_tasks = 0
    /\ executor = {}
    /\ persisted_count = 0

NextConverge ==
    \/ BalanceSnapshot
    \/ BalanceDepth
    \/ BalanceOrder

SpecConverge == InitConverge /\ [][NextConverge]_vars

\* One invocation of the balancer over any account source, the live pages
\* included, in which every awaited call (snapshot, order book, click,
\* sleep) comes back: the coroutine is resumed whenever it can be.
InitBalancer ==
    /\ pc = "balance"
    /\ exchange \in Sources \cup {Live}
    /\ position_cache = [a \in Accounts |-> None]
    /\ direction_cache = [a \in Accounts |-> "none"]
    /\ balance_cache = [a \in Accounts |-> None]
    /\ enable_auto_rotation = FALSE
    /\ trade_mode = 1
    /\ last_open_mode = 1
    /\ spotter_mode = TRUE
    /\ trade_count = 0
    /\ session_count = 0
    /\ last_fee_check_count = 0
    /\ consecutive_errors = 0
    /\ spread_pct = Unbound
    /\ diff = "above"
    /\ diff_retry = "above"
    /\ balancer_called = TRUE
    /\ retry = NoRetry
    /\ attempt = 0
    /\ reduce = NoReduce
    /\ corrective_order = FALSE
    /\ book = NoBook
    /\ task_a = "none"
    /\ task_b = "none"
    /\ dirs = NoDirs
    /\ results = <<FALSE, FALSE>>
    /\ post = NoPost
    /\ fee_result = NoFee
    /\ active_count = None
    /\ exit_reason = "UNKNOWN"
    /\ history = << >>
    /\ now = 0
    /\ guard_call = NoCall
    /\ store = Sound
    /\ save_tasks = 0
    /\ executor = {}
    /\ persisted_count = 0

SpecBalancer ==
    /\ InitBalancer
    /\ [][NextConverge]_vars
    /\ WF_vars(BalanceSnapshot)
    /\ WF_vars(BalanceDepth)
    /\ WF_vars(BalanceOrder)

(***************************************************************************)
(* Properties.                                                             *)
(***************************************************************************)
\* C1 (debounce): in an iteration whose first Spotter read showed a
\* difference above epsilon and whose second read, after the settle wait,
\* showed a difference of at most epsilon, _balance_positions is not entered
\* and no corrective order is issued.
C1_Debounce ==
    (diff = "above" /\ diff_retry = "within")
        => /\ ~balancer_called
           /\ ~corrective_order
           /\ pc \notin {"balance", "bal_depth", "bal_order"}

\* The false alarm happened and the iteration went on into the Sniper.
C1_Witness ==
    diff = "above" /\ diff_retry = "within" /\ pc = "sniper"

C8_LowDepthBlocks ==
    pc = "legs"
        => ~( \/ (book.ask_size /= DepthUnreadable /\ book.ask_size < min_depth)
              \/ (book.bid_size /= DepthUnreadable /\ book.bid_size < min_depth) )

\* C9 (mode mapping): the two legs handed to asyncio.gather are A buy / B
\* sell in mode 1, A sell / B buy in mode 2, and in mode 3, per account, sell
\* for a long and buy for a short position of at least epsilon and no order
\* (the placeholder) for a position below epsilon or an unknown direction;
\* never two placeholders.
C9_ModeMapping ==
    pc = "legs" =>
        /\ trade_mode = 1 => (task_a = "buy" /\ task_b = "sell")
        /\ trade_mode = 2 => (task_a = "sell" /\ task_b = "buy")
        /\ trade_mode = 3 =>
             /\ task_a = (IF position_cache["account_a"] < Eps
                             \/ dirs["account_a"] \notin {"long", "short"}
                          THEN "skip"
                          ELSE IF dirs["account_a"] = "long" THEN "sell"
                                                             ELSE "buy")
             /\ task_b = (IF position_cache["account_b"] < Eps
                             \/ dirs["account_b"] \notin {"long", "short"}
                          THEN "skip"
                          ELSE IF dirs["account_b"] = "long" THEN "sell"
                                                             ELSE "buy")
             /\ ~(task_a = "skip" /\ task_b = "skip")

\* Close mode with only account B closeable: one leg, one placeholder.
C9_Witness ==
    /\ pc = "legs"
    /\ trade_mode = 3
    /\ task_a = "skip"
    /\ task_b = "buy"
    /\ dirs["account_b"] = "short"

\* C10 (manual close completion) as stated: in manual Close mode, when the
\* trigger fires and both cached positions are below epsilon, the loop
\* returns without an order and the exit record carries POSITION_CLEARED.
C10_CloseCompletes ==
    [][ ( /\ pc = "depthcheck"
          /\ trade_mode = 3
          /\ ~enable_auto_rotation
          /\ book.prices
          /\ SniperDepthPasses(book)
          /\ position_cache["account_a"] /= None
          /\ position_cache["account_b"] /= None
          /\ position_cache["account_a"] < Eps
          /\ position_cache["account_b"] < Eps )
            => (pc' = "done" /\ exit_reason' = "POSITION_CLEARED") ]_vars

\* C11 (rotation thresholds) as stated: in auto mode, at the rotation step
\* of an iteration the mode goes from an open mode to Close exactly when the
\* larger cached position magnitude is >= TARGET_POSITION, recording the
\* open mode that was active, and leaves Close only when the larger cached
\* position magnitude is below epsilon.
C11_RotationThresholds ==
    [][ /\ ( /\ pc = "rotation"
             /\ enable_auto_rotation
             /\ trade_mode \in {1, 2} )
            => /\ trade_mode' = 3
                   <=> \E a \in Accounts :
                          Abs(OrZero(position_cache[a])) >= TARGET_POSITION
               /\ trade_mode' = 3 => last_open_mode' = trade_mode
        /\ ( /\ enable_auto_rotation
             /\ trade_mode = 3
             /\ trade_mode' /= 3 )
            => \A a \in Accounts : Abs(OrZero(position_cache[a])) < Eps ]_vars

\* C12 (rotation alternation): in auto mode the step that enters Close
\* records the open mode it leaves, the record is kept for as long as the
\* mode is Close, and every step that leaves Close enters the open mode
\* other than the recorded one, so that open phases alternate
\* OpenA, Close, OpenB, Close, OpenA, ... and no open mode follows itself.
C12_Alternation ==
    [][ enable_auto_rotation =>
          /\ (trade_mode \in {1, 2} /\ trade_mode' /= trade_mode)
                => (trade_mode' = 3 /\ last_open_mode' = trade_mode)
          /\ (trade_mode = 3 /\ trade_mode' = 3)
                => last_open_mode' = last_open_mode
          /\ (trade_mode = 3 /\ trade_mode' /= 3)
                => /\ trade_mode' \in {1, 2}
                   /\ trade_mode' /= last_open_mode ]_vars

\* A second Close phase: the rotation went OpenA, Close, OpenB, Close.
C12_Witness ==
    /\ enable_auto_rotation
    /\ trade_mode = 3
    /\ last_open_mode = 2

C15_Converges ==
    /\ exchange.orders * quantity < exchange.diff0 + quantity
    /\ pc = "spotter" => ~spotter_mode

\* C16 (dust tolerance): a pass of the balancer whose snapshot shows the
\* two positions less than epsilon apart returns success in that same
\* step: the order book is not read, no order reaches the exchange, and
\* spotter_mode is cleared.
C16_DustTolerance ==
    [][ ( /\ pc = "balance"
          /\ attempt < MaxAttempts
          /\ exchange.position_a - exchange.position_b < Eps
          /\ exchange.position_b - exchange.position_a < Eps )
            => /\ pc' = "spotter"
               /\ ~spotter_mode'
               /\ exchange' = exchange ]_vars

\* The balancer returned success on a difference of half a unit left after
\* one corrective order.
C16_Witness ==
    /\ pc = "spotter"
    /\ ~spotter_mode
    /\ exchange.orders = 1
    /\ exchange.diff0 = quantity + quantity \div 2
    /\ Abs(exchange.position_a - exchange.position_b) = quantity \div 2

C18_SessionCounter ==
    /\ session_count = 0
    /\ [](should_exit <=> session_count >= SessionLimit)
    /\ [][ /\ AddOrder =>
                /\ session_count' = session_count + 1
                /\ history' =
                      Append(SelectSeq(history,
                                       LAMBDA ts : /\ ts /= NotATimestamp
                                                   /\ ts + hours_24 > now),
                             now)
           /\ session_count' /= session_count => AddOrder ]_vars

\* The guard after add_order calls that took it to the session limit, the
\* file ending in the time of the last call.
C18_Witness ==
    /\ guard_call.op = "add_order"
    /\ session_count = SessionLimit
    /\ history /= << >>
    /\ history[Len(history)] = guard_call.at

\* C19 (sliding window): get_active_count returns the number of entries of
\* the history file that parse as a timestamp strictly newer than the
\* current time less 24 hours; after the call the file holds exactly those
\* entries, in their order; and the file is written exactly when the number
\* of entries changed.
C19_SlidingWindow ==
    [][ GetActiveCount =>
          LET kept(ts) == ts /= NotATimestamp /\ now - hours_24 < ts
          IN  /\ active_count' =
                    Cardinality({ n \in 1 .. Len(history) : kept(history[n]) })
              /\ history' = SelectSeq(history, kept)
              /\ guard_call'.wrote <=> Len(history') /= Len(history) ]_vars

\* A first call that dropped an entry, wrote the file and counted the one
\* entry left, which is 12 hours old.
C19_Witness ==
    /\ guard_call.op = "get_active_count"
    /\ guard_call.wrote
    /\ active_count = 1
    /\ Len(history) = 1
    /\ guard_call.prev_op = "none"
    /\ history[1] + 1 = guard_call.at

\* C20 (pruning idempotence): a get_active_count call that follows another
\* get_active_count call, with no entry of the file active at the first and
\* expired at the second, returns the same count and leaves the file as it
\* was, without writing it.
C20_Idempotent ==
    [][ ( /\ GetActiveCount
          /\ guard_call.op = "get_active_count"
          /\ \A n \in 1 .. Len(history) :
                (history[n] /= NotATimestamp
                 /\ history[n] + hours_24 > guard_call.at)
                   => history[n] + hours_24 > now )
            => /\ active_count' = active_count
               /\ history' = history
               /\ ~guard_call'.wrote ]_vars

\* Two calls in a row, the second a clock step after the first, with two
\* entries in the file.
C20_Witness ==
    /\ guard_call.op = "get_active_count"
    /\ guard_call.prev_op = "get_active_count"
    /\ guard_call.prev_at < guard_call.at
    /\ active_count = 2
    /\ Len(history) = 2

\* C21: whatever the condition of the history file (missing, unreadable,
\* damaged) and whether or not it can be written, neither get_active_count
\* nor add_order raises; get_active_count over a file that is not healthy
\* returns the count of an empty history, and add_order always adds one to
\* session_count.
C21_NeverRaises ==
    [][ /\ (GetActiveCount \/ AddOrder) => ~guard_call'.raised
        /\ (GetActiveCount /\ store.read /= "ok") => active_count' = 0
        /\ AddOrder => session_count' = session_count + 1 ]_vars

\* C22: every return of the monitor loop decided by an exit condition went
\* through graceful_exit first, so the loop is never left with the exit
\* reason still UNKNOWN.
C22_SingleShutdownPath == pc = "done" => exit_reason /= "UNKNOWN"

\* C23: when an external interrupt ends the monitor loop, the exit record
\* carries USER_INTERRUPT.
C23_InterruptRecorded == pc = "interrupted" => exit_reason = "USER_INTERRUPT"

\* C24: at process exit of a session that counted at least one trade, no
\* trade-count save is outstanding and the count in the file equals the
\* count in memory.
C24_FlushBeforeExit ==
    (pc = "exited" /\ trade_count > 0)
        => ( /\ save_tasks = 0
             /\ executor = {}
             /\ persisted_count = trade_count )

\* C25: every invocation of the balancer returns; a pass of its loop is
\* begun only with attempt below the attempt budget and either returns or ends
\* with attempt one higher, so attempt never exceeds the budget; every
\* corrective order is counted as one attempt; and with the attempts used up
\* the balancer returns failure (spotter_mode stays set).
C25_BalancerTerminates ==
    /\ <>(pc = "spotter")
    /\ [](attempt \in 0 .. MaxAttempts)
    /\ [][ /\ (pc = "balance" /\ pc' /= "spotter")
                => (attempt < MaxAttempts /\ pc' = "bal_depth"
                    /\ attempt' = attempt)
           /\ (pc = "bal_depth")
                => \/ pc' = "bal_order" /\ attempt' = attempt
                   \/ pc' = "balance" /\ attempt' = attempt + 1
           /\ (pc = "bal_order")
                => (pc' = "balance" /\ attempt' = attempt + 1)
           /\ (pc = "balance" /\ attempt >= MaxAttempts)
                => (pc' = "spotter" /\ spotter_mode') ]_vars

\* The attempts are used up after corrective orders on the live pages: the
\* balancer is about to return failure.
C25_Witness ==
    /\ pc = "balance"
    /\ attempt = MaxAttempts
    /\ corrective_order
    /\ ~exchange.fake

\* C26: a failed balancing does not end the session, and the Sniper, held
\* back by it (spotter_mode still set when an iteration begins), is let
\* through by the first Spotter read only when that read returned both
\* positions and they are within epsilon of each other.  A position that was
\* read is in the cache after the read.
C26_UnresolvedBlocksSniper ==
    [][ /\ (pc \in {"balance", "bal_depth", "bal_order"} /\ pc' = "spotter")
             => exit_reason' = "UNKNOWN"
        /\ (pc = "spotter" /\ spotter_mode /\ pc' = "rotation")
             => /\ position_cache'["account_a"] /= None
                /\ position_cache'["account_b"] /= None
                /\ Abs(position_cache'["account_a"]
                       - position_cache'["account_b"]) <= Eps ]_vars

\* C27: no order is placed on the basis of a snapshot in which a read
\* failed.  For the paired order: in an iteration whose first Spotter read
\* let the Sniper through, both positions were read (and so are in the
\* cache) and they are within epsilon of each other.
C27_NoOrderOnFailedRead ==
    (pc = "legs" /\ diff = "within")
        => /\ position_cache["account_a"] /= None
           /\ position_cache["account_b"] /= None
           /\ Abs(position_cache["account_a"]
                  - position_cache["account_b"]) <= Eps

C29_CacheHoldsLatest ==
    /\ retry.read
         => /\ retry.position_a /= None
                 => position_cache["account_a"] = retry.position_a
            /\ retry.position_b /= None
                 => position_cache["account_b"] = retry.position_b
    /\ (post.read /\ pc = "exitchecks")
         => /\ post.position_a /= None
                 => position_cache["account_a"] = post.position_a
            /\ post.position_b /= None
                 => position_cache["account_b"] = post.position_b

\* C30: with auto-rotation disabled no step of the monitor loop changes
\* trade_mode or last_open_mode, and auto-rotation stays disabled.
C30_ManualModeInert ==
    [][ ~enable_auto_rotation
          => /\ trade_mode' = trade_mode
             /\ last_open_mode' = last_open_mode
             /\ ~enable_auto_rotation' ]_vars

\* A manual session in an open mode has passed the rotation step with a
\* position at the target, where the automatic mode would have switched to
\* Close.
C30_Witness ==
    /\ ~enable_auto_rotation
    /\ pc = "sniper"
    /\ ~spotter_mode
    /\ trade_mode \in {1, 2}
    /\ TargetReached(MaxSinglePosition)

\* C31: when both legs of a triggered trade fail (return false or raise),
\* trade_count, session_count, the persisted order history and trade count,
\* the snapshot caches and trade_mode are unchanged, no exit condition is
\* evaluated (no exit reason is set and the step does not go on to the
\* post-trade read or the exit checks), and the loop starts its next
\* iteration.
C31_FailedCycleInert ==
    [][ (pc = "legs" /\ results' = <<FALSE, FALSE>>)
          => /\ UNCHANGED <<trade_count, session_count, last_fee_check_count>>
             /\ UNCHANGED <<history, store, persisted_count, save_tasks>>
             /\ UNCHANGED cacheVars
             /\ UNCHANGED <<trade_mode, last_open_mode, spotter_mode>>
             /\ exit_reason' = exit_reason
             /\ pc' = "spotter" ]_vars

\* Two real legs have been submitted in a session that already counted a
\* trade and holds a snapshot: the cycle whose legs may both fail.
C31_Witness ==
    /\ pc = "legs"
    /\ task_a \in {"buy", "sell"}
    /\ task_b \in {"buy", "sell"}
    /\ trade_count = 1
    /\ session_count = 1
    /\ position_cache["account_a"] /= None
    /\ position_cache["account_b"] /= None

\* C32: every corrective order of the balancer is one order per attempt, on
\* the account whose position is the larger in the snapshot of that attempt
\* (an unread position counting as 0), selling when that account is long and
\* buying when it is short; the choice made at the snapshot is the one the
\* order is placed with, the other account is never touched, and an attempt
\* goes on to an order only when the larger account's direction is known.
C32_CorrectiveTarget ==
    [][ /\ (pc = "balance" /\ pc' = "bal_depth")
             => \E sp \in AccountSnapshots :
                  LET pos_a == OrZero(sp[1][1])
                      pos_b == OrZero(sp[2][1])
                      larger == IF pos_a > pos_b THEN "A" ELSE "B"
                      direction == IF pos_a > pos_b THEN sp[1][2] ELSE sp[2][2]
                  IN  /\ pos_a /= pos_b
                      /\ direction \in {"long", "short"}
                      /\ reduce'.account = larger
                      /\ reduce'.action = (IF direction = "long" THEN "sell"
                                                                 ELSE "buy")
        /\ pc \in {"bal_depth", "bal_order"} => reduce' = reduce
        /\ exchange' /= exchange
             => /\ pc = "bal_order"
                /\ attempt' = attempt + 1
                /\ exchange'.orders = exchange.orders + 1
                /\ reduce.account = "A"
                     => /\ exchange'.position_b = exchange.position_b
                        /\ exchange'.position_a = exchange.position_a - quantity
                /\ reduce.account = "B"
                     => /\ exchange'.position_a = exchange.position_a
                        /\ exchange'.position_b = exchange.position_b - quantity
        /\ (pc = "balance" /\ exchange.fake /\ attempt < MaxAttempts
              /\ Abs(exchange.position_a - exchange.position_b) >= Eps
              /\ "none" = (IF exchange.position_a > exchange.position_b
                           THEN exchange.dir_a ELSE exchange.dir_b))
             => /\ pc' = "spotter"
                /\ spotter_mode' = spotter_mode
                /\ exchange' = exchange ]_vars

\* A second corrective order is about to be placed, a buy on account B whose
\* short position is still the larger after the first order.
C32_Witness ==
    /\ pc = "bal_order"
    /\ exchange.fake
    /\ exchange.orders = 1
    /\ exchange.position_b > exchange.position_a
    /\ exchange.dir_b = "short"
    /\ reduce = [account |-> "B", action |-> "buy"]

\* C33: in a balancer attempt, an order book whose depth size is unreadable
\* (-1) lets the corrective order go ahead; one whose depth on the side the
\* order consumes (bid for a sell, ask for a buy) is a real number below the
\* minimum ends the attempt without an order (wait, count the attempt,
\* retry); so does one whose prices are unreadable.
C33_BalancerDepthCheck ==
    [][ \A bk \in OrderBooks :
          BalanceDepthOn(bk)
            => LET consumed == IF reduce.action = "sell" THEN bk.bid_size
                                                         ELSE bk.ask_size
               IN  /\ ~bk.prices
                     => (pc' = "balance" /\ attempt' = attempt + 1)
                   /\ (bk.prices /\ consumed = DepthUnreadable)
                     => pc' = "bal_order"
                   /\ (bk.prices /\ consumed /= DepthUnreadable
                         /\ consumed < min_depth)
                     => (pc' = "balance" /\ attempt' = attempt + 1) ]_vars

C35_FreshSpread ==
    [][ (pc = "gate" /\ pc' = "depth") => ~spotter_mode ]_vars

\* C36: in every state in which a paired trade is submitted spotter_mode is
\* false, the iteration after a failed balancing whose debounced second
\* reading shows the accounts balanced included.
C36_FlagGatesSniper == pc = "legs" => ~spotter_mode

\* C37: as long as the 24 h reset of trade_count has not fired, trade_count
\* equals the order guard's session_count, and both equal the number of
\* triggered trades with at least one successful leg: both start at 0, each
\* such trade adds one to both in the same step, and no other step changes
\* either, the reset (trade_count back to 0 from max_trades) excepted.
C37_CountersAgree ==
    [][ /\ session_count < MaxTrades => trade_count = session_count
        /\ trade_count <= session_count
        /\ (pc = "legs" /\ (results'[1] \/ results'[2]))
             => /\ trade_count' = trade_count + 1
                /\ session_count' = session_count + 1
        /\ (trade_count' /= trade_count \/ session_count' /= session_count)
             => \/ pc = "legs" /\ (results'[1] \/ results'[2])
                \/ /\ pc = "sniper"
                   /\ trade_count >= MaxTrades
                   /\ trade_count' = 0
                   /\ session_count' = session_count ]_vars

\* The boundary of the iteration after a counted trade whose exit checks
\* all passed.
C37_Witness ==
    /\ pc = "spotter"
    /\ trade_count = 1
    /\ session_count = 1

\* C38: the background saves of the trade count take effect in the order
\* they were scheduled: the count in the file never goes back to the count
\* of an earlier save, and whenever no save is outstanding (no task waiting,
\* no write in the pool) after a counted trade the file holds the count in
\* memory.
C38_OrderedSaves ==
    [][ /\ persisted_count' >= persisted_count
        /\ (save_tasks' = 0 /\ executor' = {} /\ trade_count' > 0)
             => persisted_count' = trade_count' ]_vars

\* C39: the Spotter's detection test and the balancer's success test
\* classify every difference the same way, a difference of exactly epsilon
\* included: a pass of the balancer whose snapshot it does not accept as
\* balanced, and which therefore goes on to a corrective order, has a
\* snapshot that the Spotter's test detects as an imbalance.
C39_EpsilonAgreement ==
    [][ (pc = "balance" /\ pc' = "bal_depth" /\ exchange.fake)
          => SpotterSuspects(Abs(exchange.position_a - exchange.position_b))
      ]_vars

====
